---- MODULE Spec2Model ----
(***************************************************************************)
(* A model of src/src/aoupy/bucket.py: the bucket I/O facade over the      *)
(* storage CLI (gsutil / gcloud storage) and the polars CSV reader.        *)
(*                                                                         *)
(* Strings are sequences of one-character strings, so that str.split,      *)
(* str.replace and f-string concatenation are computed as Python computes  *)
(* them.  The bucket is a map from bucket id to (object path -> content);  *)
(* the local filesystem is a set of directories and a map path -> content. *)
(* A file's content is a CSV text: a sequence of lines, each a sequence of *)
(* text fields (the first line is the header).                             *)
(***************************************************************************)
EXTENDS Integers, Sequences, FiniteSets, TLC

VARIABLES env,      \* value of the environment variable WORKSPACE_BUCKET
          remote,   \* bucket id -> (object path -> content)
          dirs,     \* local directories (relative to the working directory)
          files,    \* local regular files: path -> content
          last,     \* what the last completed facade call did and returned
          nops,     \* number of facade calls made so far
          pc,       \* per thread: position inside write_to_bucket
          call      \* per thread: the arguments of its write_to_bucket call

vars == <<env, remote, dirs, files, last, nops, pc, call>>

----------------------------------------------------------------------------
(* Bounds of the model. *)

\* facade calls per behaviour
MaxOps == 1
\* facade calls per behaviour of the write-then-read specification
MaxRoundTripOps == 2

----------------------------------------------------------------------------
(* Python values and string operations. *)

None == <<"None">>

\* str(x) inside an f-string: None is spliced in as the text "None"
Str(x) == IF x = None THEN <<"N", "o", "n", "e">> ELSE x

Last(s) == s[Len(s)]

DropLast(s) == SubSeq(s, 1, Len(s) - 1)

\* the first index at or after i where s holds c, or 0
RECURSIVE IndexFrom(_, _, _)
IndexFrom(s, c, i) ==
    IF i > Len(s) THEN 0 ELSE IF s[i] = c THEN i ELSE IndexFrom(s, c, i + 1)

\* s.split(c) for a one-character separator c
RECURSIVE Split(_, _)
Split(s, c) ==
    LET i == IndexFrom(s, c, 1)
    IN  IF i = 0 THEN <<s>>
        ELSE <<SubSeq(s, 1, i - 1)>> \o Split(SubSeq(s, i + 1, Len(s)), c)

\* c.join(parts)
RECURSIVE Join(_, _)
Join(parts, c) ==
    IF Len(parts) = 0 THEN <<>>
    ELSE IF Len(parts) = 1 THEN parts[1]
    ELSE parts[1] \o <<c>> \o Join(Tail(parts), c)

StartsWith(s, p) == Len(p) <= Len(s) /\ SubSeq(s, 1, Len(p)) = p

EndsWith(s, p) == Len(p) <= Len(s) /\ SubSeq(s, Len(s) - Len(p) + 1, Len(s)) = p

\* s.replace(old, new): every non-overlapping occurrence, left to right
RECURSIVE Replace(_, _, _)
Replace(s, old, new) ==
    IF Len(s) = 0 \/ Len(old) = 0 THEN s
    ELSE IF StartsWith(s, old)
         THEN new \o Replace(SubSeq(s, Len(old) + 1, Len(s)), old, new)
         ELSE <<s[1]>> \o Replace(Tail(s), old, new)

\* the elements of seq that are in set, in the order of seq
RECURSIVE SelectIn(_, _)
SelectIn(seq, set) ==
    IF Len(seq) = 0 THEN <<>>
    ELSE (IF seq[1] \in set THEN <<seq[1]>> ELSE <<>>) \o SelectIn(Tail(seq), set)

RECURSIVE Flatten(_)
Flatten(seqs) == IF Len(seqs) = 0 THEN <<>> ELSE seqs[1] \o Flatten(Tail(seqs))

Range(f) == {f[x] : x \in DOMAIN f}

----------------------------------------------------------------------------
(* The names used by the model. *)

BUCKET_IO == <<"b", "u", "c", "k", "e", "t", "_", "i", "o">>
TEMP_CSV  == BUCKET_IO \o <<"/", "t", "e", "m", "p", ".", "c", "s", "v">>
DOT_CSV   == <<".", "c", "s", "v">>

P == <<"g", "s", ":", "/", "/", "p">>
Q == <<"g", "s", ":", "/", "/", "q">>
Buckets == {P, Q}

A_CSV   == <<"a", ".", "c", "s", "v">>
B_CSV   == <<"b", ".", "c", "s", "v">>
A_TXT   == <<"a", ".", "t", "x", "t">>
A_UPPER == <<"a", ".", "C", "S", "V">>
CSV     == <<"c", "s", "v">>
OUT_CSV == <<"o", "u", "t", ".", "c", "s", "v">>
X       == <<"x">>
X_A_CSV   == <<"x", "/", "a", ".", "c", "s", "v">>
X_B_CSV   == <<"x", "/", "b", ".", "c", "s", "v">>
X_N_TXT   == <<"x", "/", "n", ".", "t", "x", "t">>
X_OUT_CSV == <<"x", "/", "o", "u", "t", ".", "c", "s", "v">>

\* the object paths of the model, in the order the CLI lists them
ObjOrder == <<A_CSV, CSV, OUT_CSV, X_A_CSV, X_B_CSV, X_N_TXT, X_OUT_CSV>>

----------------------------------------------------------------------------
(* Dataframes and the CSV format (polars write_csv / read_csv / scan_csv). *)

Digits == <<"0", "1", "2", "3", "4", "5", "6", "7", "8", "9">>

\* the decimal text of a natural number
RECURSIVE NatText(_)
NatText(n) == IF n < 10 THEN <<Digits[n + 1]>> ELSE NatText(n \div 10) \o <<Digits[(n % 10) + 1]>>

\* the text write_csv gives an integer cell
CellText(v) == IF v < 0 THEN <<"-">> \o NatText(0 - v) ELSE NatText(v)

\* DataFrame.write_csv: a header line, then one line per row, every cell as text
write_csv(df) ==
    <<df.columns>> \o
    [i \in 1..Len(df.rows) |-> [j \in 1..Len(df.rows[i]) |-> CellText(df.rows[i][j])]]

\* pl.read_csv(path, infer_schema=False) of a file's content: every column is text
ParseCsv(content) ==
    [kind |-> "eager", columns |-> content[1], rows |-> Tail(content)]

\* pl.scan_csv(path, infer_schema=False): a plan that names the file
ScanCsv(path) == [kind |-> "lazy", path |-> path]

\* LazyFrame.collect() against a filesystem
Collect(frame, fs) == IF frame.kind = "lazy" THEN ParseCsv(fs[frame.path]) ELSE frame

\* a vstack that puts the rows of y above those of x
vstack_swapped(x, y) == [kind |-> "eager", columns |-> x.columns, rows |-> y.rows \o x.rows]

\* x.vstack(y): the rows of y below those of x; the columns must agree
vstack(x, y) == [kind |-> "eager", columns |-> x.columns, rows |-> x.rows \o y.rows]

\* reduce(lambda x, y: x.vstack(y), frames) for a non-empty list
RECURSIVE ReduceVstack(_)
ReduceVstack(frames) ==
    IF Len(frames) = 1 THEN frames[1]
    ELSE vstack(ReduceVstack(DropLast(frames)), Last(frames))

SameColumns(frames) == \A i, j \in 1..Len(frames) : frames[i].columns = frames[j].columns

ColK == <<"k">>
ColV == <<"v">>
DF1 == [columns |-> <<ColK, ColV>>, rows |-> << <<1, 10>> >>]
DF2 == [columns |-> <<ColK, ColV>>, rows |-> << <<2, 20>>, <<3, -4>> >>]
DataFrames == {DF1, DF2}

\* the content of an object that is not a CSV table
NOTE == << << <<"n", "o", "t", "e">> >> >>

----------------------------------------------------------------------------
(* The local filesystem: os.path.isdir, os.makedirs. *)

isdir(p) == p \in dirs

\* the paths made of the first 1, 2, ... components parts of a path
Prefixes(parts) == {Join(SubSeq(parts, 1, k), "/") : k \in 1..Len(parts)}

\* p and every ancestor directory of p
Ancestors(p) == Prefixes(Split(p, "/"))

\* creating the directories anc: fails when one of them is a regular file
MakeAll(anc) ==
    IF anc \cap DOMAIN files # {}
    THEN [error |-> "OSError", dirs |-> dirs]
    ELSE [error |-> "none", dirs |-> dirs \cup anc]

\* os.makedirs(p)
makedirs(p) == MakeAll(Ancestors(p))

\* if not os.path.isdir(p): os.makedirs(p), when the condition `wanted` holds
EnsureDir(wanted, p) ==
    IF wanted /\ ~isdir(p) THEN makedirs(p) ELSE [error |-> "none", dirs |-> dirs]

basename(p) == Last(Split(p, "/"))

----------------------------------------------------------------------------
(* The storage CLI.  `fail` is the CLI failing for a reason of its own      *)
(* (credentials, network); a command also exits non-zero when its source    *)
(* does not exist.  Each returns its exit status and its effect.            *)

Objects(b) == DOMAIN remote[b]

\* where `cp SRC dst` puts the object: inside dst when dst is a directory
CpTarget(obj, dst, ds) ==
    IF dst = <<".">> THEN basename(obj)
    ELSE IF dst \in ds THEN dst \o <<"/">> \o basename(obj)
    ELSE dst

\* the copy of object obj of bucket b to the local path t
CpDownTo(b, obj, t, fail, ds, fs) ==
    IF fail \/ obj \notin Objects(b) \/ t \in ds
    THEN [exit |-> 1, files |-> fs, written |-> {}]
    ELSE [exit |-> 0, files |-> (t :> remote[b][obj]) @@ fs, written |-> {t}]

\* cp '<b>/<obj>' <dst>
CpDown(b, obj, dst, fail, ds, fs) ==
    CpDownTo(b, obj, CpTarget(obj, dst, ds), fail, ds, fs)

\* the objects '<b>/<folder>/*.csv' matches
WildcardCsv(b, folder) ==
    {o \in Objects(b) :
        /\ StartsWith(o, folder \o <<"/">>)
        /\ Len(Split(o, "/")) = Len(Split(folder, "/")) + 1
        /\ EndsWith(o, DOT_CSV)}

\* the copy of the objects `match` of bucket b into the local paths `to`
CpAll(b, match, to, dst, fail, ds, fs) ==
    IF fail \/ match = {} \/ dst \notin ds
    THEN [exit |-> 1, files |-> fs, written |-> {}]
    ELSE [exit |-> 0,
          files |-> [p \in Range(to) \cup DOMAIN fs |->
                       IF p \in Range(to)
                       THEN remote[b][CHOOSE o \in match : to[o] = p]
                       ELSE fs[p]],
          written |-> Range(to)]

\* the copy of the objects `match` of bucket b into the directory dst
CpInto(b, match, dst, fail, ds, fs) ==
    CpAll(b, match, [o \in match |-> dst \o <<"/">> \o basename(o)], dst, fail, ds, fs)

\* cp '<b>/<folder>/*.csv' <dst>
CpWildcard(b, folder, dst, fail, ds, fs) ==
    CpInto(b, WildcardCsv(b, folder), dst, fail, ds, fs)

\* cp <local> <b>/<target>
CpUp(local, b, target, fail, fs) ==
    IF fail \/ local \notin DOMAIN fs
    THEN [exit |-> 1, remote |-> remote]
    ELSE [exit |-> 0,
          remote |-> [remote EXCEPT ![b] = (target :> fs[local]) @@ @]]

\* rm <b>/<path>
Rm(b, path, fail) ==
    IF fail \/ path \notin Objects(b)
    THEN [exit |-> 1, remote |-> remote]
    ELSE [exit |-> 0,
          remote |-> [remote EXCEPT ![b] = [o \in Objects(b) \ {path} |-> @[o]]]]

\* the first occurrence of every element of seq, in order
RECURSIVE Dedupe(_)
Dedupe(seq) ==
    IF Len(seq) = 0 THEN <<>>
    ELSE LET front == Dedupe(DropLast(seq))
         IN  IF Last(seq) \in Range(front) THEN front ELSE Append(front, Last(seq))

\* the entry ls prints for object o under the prefix pre ("" or "<target>/"): the
\* object itself, or the folder of the prefix the object lies in
LsEntry(o, pre) ==
    LET parts == Split(SubSeq(o, Len(pre) + 1, Len(o)), "/")
    IN  IF Len(parts) = 1 THEN o ELSE pre \o parts[1] \o <<"/">>

\* the prefix `ls <b>` or `ls <b>/<target>` lists under
LsPrefix(target) == IF target = None THEN <<>> ELSE target \o <<"/">>

\* the objects of bucket b that are target or lie under it, in the CLI's order
LsObjects(b, target) ==
    SelectIn(ObjOrder, {o \in Objects(b) : o = target \/ StartsWith(o, LsPrefix(target))})

\* the entries printed for the objects `listed`
LsEntries(listed, target) ==
    [i \in 1..Len(listed) |->
        IF listed[i] = target THEN listed[i] ELSE LsEntry(listed[i], LsPrefix(target))]

\* the entries as URLs of bucket b
Urls(b, shown) == [i \in 1..Len(shown) |-> b \o <<"/">> \o shown[i]]

\* the URLs `ls <b>` or `ls <b>/<target>` prints, in the CLI's order: one per object
\* or folder directly under the prefix (or the object itself)
Listing(b, target) == Urls(b, Dedupe(LsEntries(LsObjects(b, target), target)))

\* the lines urls, each ended by a newline
Lines(urls) == Flatten([i \in 1..Len(urls) |-> urls[i] \o <<"\n">>])

\* the standard output of ls: one URL per line, each line ended by a newline
LsStdout(b, target, fail) == IF fail THEN <<>> ELSE Lines(Listing(b, target))


----------------------------------------------------------------------------
(* Pieces shared by the facade's functions. *)

\* a default read once, when the module is loaded, instead of at every call
ResolveBucketAtImport(bucket_id) == IF bucket_id = None THEN P ELSE bucket_id

\* if bucket_id == None: bucket_id = os.getenv('WORKSPACE_BUCKET')
ResolveBucket(bucket_id) == IF bucket_id = None THEN env ELSE bucket_id

\* subprocess.check_output(cmd, shell=True): a non-zero exit raises
check_output(exit) == IF exit # 0 THEN "CalledProcessError" ELSE "none"

\* a call that inspects the exit status the way check_output does
os_system_checked(exit) == IF exit # 0 THEN "CalledProcessError" ELSE "none"

\* os.system(cmd): the exit status is returned and dropped, nothing is raised
os_system(exit) == "none"

\* a temporary file of the caller's own
TempFilePerCaller(caller) ==
    BUCKET_IO \o <<"/", "t", "e", "m", "p">> \o NatText(caller) \o DOT_CSV

\* the file write_to_bucket serializes to: 'bucket_io/temp.csv', whoever calls
TempFile(caller) == TEMP_CSV

\* a split that keeps what follows the last newline
SplitLinesKeepLast(stdout) == Split(stdout, "\n")

\* .decode('utf-8').split("\n")[:-1]
SplitLines(stdout) == DropLast(Split(stdout, "\n"))

\* the check with its second test inverted
NoTargetTypo(file_name, file_folder) == file_name = None /\ file_folder # None

\* file_name is None and file_folder is None
NoTarget(file_name, file_folder) == file_name = None /\ file_folder = None

\* file_name.split(".")[-1] != "csv"
NotCsv(file_name) == Last(Split(file_name, ".")) # CSV

\* the destination of the single-file copy in read_from_bucket's four branches
LoadCpDst(file_folder, lazy) ==
    IF file_folder = None THEN BUCKET_IO
    ELSE IF lazy THEN BUCKET_IO \o <<"/">> \o file_folder
    ELSE BUCKET_IO

\* the path the single-file branches hand to scan_csv / read_csv
LoadParsePath(file_name, file_folder) ==
    IF file_folder = None THEN BUCKET_IO \o <<"/">> \o file_name
    ELSE BUCKET_IO \o <<"/">> \o file_folder \o <<"/">> \o file_name

\* the object the single-file branches copy
LoadObject(file_name, file_folder) ==
    IF file_folder = None THEN file_name ELSE file_folder \o <<"/">> \o file_name

\* f.replace(bucket_id, "bucket_io")
LocalOf(f, bucket_id) == Replace(f, bucket_id, BUCKET_IO)

\* the value a call leaves in `last`
Done(op, args, error, value, cmds, exits, copied, parsed) ==
    [op |-> op, args |-> args, error |-> error, value |-> value,
     cmds |-> cmds, exits |-> exits, copied |-> copied, parsed |-> parsed]

Cmd(verb, url, local) == [verb |-> verb, url |-> url, local |-> local]

----------------------------------------------------------------------------
(* read_from_bucket, as a function of its arguments and the current state:  *)
(* what it raises or returns, the commands it issues, and the filesystem it *)
(* leaves.                                                                  *)

\* the outcome of a single-file branch whose copy did cp and which parses path
ReadCopied(cp, cmd, path, lazy, ds) ==
    [error  |-> IF os_system(cp.exit) # "none" THEN os_system(cp.exit)
                ELSE IF path \notin DOMAIN cp.files THEN "FileNotFoundError"
                ELSE "none",
     value  |-> IF os_system(cp.exit) # "none" \/ path \notin DOMAIN cp.files THEN None
                ELSE IF lazy THEN ScanCsv(path)
                ELSE ParseCsv(cp.files[path]),
     cmds   |-> <<cmd>>,
     exits  |-> <<cp.exit>>,
     copied |-> cp.written,
     parsed |-> IF os_system(cp.exit) # "none" THEN <<>> ELSE <<path>>,
     dirs   |-> ds,
     files  |-> cp.files]

\* the single-file branches (file_name is not None)
ReadOne(file_name, file_folder, b, lazy, failCp, ds) ==
    ReadCopied(CpDown(b, LoadObject(file_name, file_folder), LoadCpDst(file_folder, lazy),
                      failCp, ds, files),
               Cmd("cp", b \o <<"/">> \o LoadObject(file_name, file_folder),
                   LoadCpDst(file_folder, lazy)),
               LoadParsePath(file_name, file_folder), lazy, ds)

\* dfs = reduce(lambda x, y: x.vstack(y), dfs), with .collect() first when lazy
Stacked(frames, done) ==
    [done EXCEPT
       !.error = IF Len(frames) = 0 THEN "TypeError"
                 ELSE IF ~SameColumns(frames) THEN "ShapeError"
                 ELSE "none",
       !.value = IF Len(frames) = 0 \/ ~SameColumns(frames) THEN None
                 ELSE ReduceVstack(frames)]

\* the index of the first path that is not a local file, or 0
RECURSIVE FirstMissing(_, _, _)
FirstMissing(paths, fs, i) ==
    IF i > Len(paths) THEN 0
    ELSE IF paths[i] \notin DOMAIN fs THEN i
    ELSE FirstMissing(paths, fs, i + 1)

\* the loop over the listed files: each path is parsed in turn
ReadEach(paths, first, lazy, stack, done) ==
    IF first # 0
    THEN [done EXCEPT !.error = "FileNotFoundError", !.parsed = SubSeq(paths, 1, first)]
    ELSE IF ~stack
    THEN [done EXCEPT !.parsed = paths,
                      !.value = [i \in 1..Len(paths) |->
                                    IF lazy THEN ScanCsv(paths[i])
                                    ELSE ParseCsv(done.files[paths[i]])]]
    ELSE Stacked([i \in 1..Len(paths) |-> ParseCsv(done.files[paths[i]])],
                 [done EXCEPT !.parsed = paths])

\* the folder branch once the listing is known: the wildcard copy, then the loop
ReadListed(paths, lsExit, lsCmd, cp, cpCmd, lazy, stack, ds) ==
    IF check_output(lsExit) # "none"
    THEN [error |-> check_output(lsExit), value |-> None, cmds |-> <<lsCmd>>,
          exits |-> <<lsExit>>, copied |-> {}, parsed |-> <<>>,
          dirs |-> ds, files |-> files]
    ELSE IF os_system(cp.exit) # "none"
    THEN [error |-> os_system(cp.exit), value |-> None, cmds |-> <<lsCmd, cpCmd>>,
          exits |-> <<lsExit, cp.exit>>, copied |-> cp.written, parsed |-> <<>>,
          dirs |-> ds, files |-> cp.files]
    ELSE ReadEach(paths, FirstMissing(paths, cp.files, 1), lazy, stack,
                  [error |-> "none", value |-> None, cmds |-> <<lsCmd, cpCmd>>,
                   exits |-> <<lsExit, cp.exit>>, copied |-> cp.written, parsed |-> <<>>,
                   dirs |-> ds, files |-> cp.files])

\* [f.replace(bucket_id, "bucket_io") for f in targets]
LocalPaths(targets, b) == [i \in 1..Len(targets) |-> LocalOf(targets[i], b)]

\* the folder branch (file_name is None)
ReadFolder(file_folder, b, lazy, stack, failLs, failCp, ds) ==
    ReadListed(LocalPaths(SplitLines(LsStdout(b, file_folder, failLs)), b),
               IF failLs THEN 1 ELSE 0,
               Cmd("ls", IF file_folder = None THEN b ELSE b \o <<"/">> \o file_folder, None),
               CpWildcard(b, Str(file_folder), BUCKET_IO \o <<"/">> \o Str(file_folder),
                          failCp, ds, files),
               Cmd("cp", b \o <<"/">> \o Str(file_folder) \o <<"/", "*">> \o DOT_CSV,
                   BUCKET_IO \o <<"/">> \o Str(file_folder)),
               lazy, stack, ds)

Raised(error) ==
    [error |-> error, value |-> None, cmds |-> <<>>, exits |-> <<>>, copied |-> {},
     parsed |-> <<>>, dirs |-> dirs, files |-> files]

\* read_from_bucket after its argument checks, mk being the outcome of makedirs
ReadChecked(file_name, file_folder, b, mk, lazy, stack, failLs, failCp) ==
    IF mk.error # "none" THEN Raised(mk.error)
    ELSE IF file_name # None
         THEN ReadOne(file_name, file_folder, b, lazy, failCp, mk.dirs)
         ELSE ReadFolder(file_folder, b, lazy, stack, failLs, failCp, mk.dirs)

read_from_bucket(file_name, file_folder, bucket_id, lazy, stack, failLs, failCp) ==
    IF NoTarget(file_name, file_folder) THEN Raised("ValueError: neither")
    ELSE IF file_name # None /\ NotCsv(file_name) THEN Raised("ValueError: not csv")
    ELSE ReadChecked(file_name, file_folder, ResolveBucket(bucket_id),
                     EnsureDir(file_folder # None, BUCKET_IO \o <<"/">> \o Str(file_folder)),
                     lazy, stack, failLs, failCp)

----------------------------------------------------------------------------
(* copy_to_bucket, as a function of its arguments, the directories and the  *)
(* files it finds.                                                          *)

\* the outcome of copy_to_bucket, mk being that of makedirs and cp that of the copy
Uploaded(mk, cp, cmd) ==
    IF mk.error # "none"
    THEN [error |-> mk.error, cmds |-> <<>>, exits |-> <<>>,
          dirs |-> dirs, remote |-> remote]
    ELSE [error |-> os_system(cp.exit),
          cmds |-> <<cmd>>,
          exits |-> <<cp.exit>>,
          dirs |-> mk.dirs,
          remote |-> IF os_system(cp.exit) = "none" THEN cp.remote ELSE remote]

\* '/'.join(target.split('/')[:-1]) when target has more than one component
TargetFolder(parts) == [nested |-> Len(parts) > 1, path |-> Join(DropLast(parts), "/")]

\* the local folders copy_to_bucket creates for target
EnsureTargetDir(folder) == EnsureDir(folder.nested, folder.path)

copy_to_bucket(file_name, target, bucket_id, fail, fs) ==
    Uploaded(EnsureTargetDir(TargetFolder(Split(target, "/"))),
             CpUp(file_name, ResolveBucket(bucket_id), target, fail, fs),
             Cmd("cp", ResolveBucket(bucket_id) \o <<"/">> \o target, file_name))


----------------------------------------------------------------------------
(* The state after construction, and the arguments the calls are tried on. *)

Threads == {1, 2}

BucketArgs == {None, Q}
LoadNames == {A_CSV, OUT_CSV, A_TXT, A_UPPER, CSV}
LoadFolders == {None, X}
DownloadPaths == {X_B_CSV}
UploadSources == {B_CSV}
UploadTargets == {OUT_CSV, X_OUT_CSV}
RemovePaths == {X_N_TXT}
\* which command of a call the CLI fails on for a reason of its own
Failures == {"none", "ls", "cp"}
ListTargets == {None, X}

\* bucket P holds CSV and non-CSV objects under x/, bucket Q only CSV objects
InitRemote ==
    (P :> ((A_CSV :> write_csv(DF1)) @@ (X_A_CSV :> write_csv(DF1)) @@
           (X_B_CSV :> write_csv(DF2)) @@ (X_N_TXT :> NOTE))) @@
    (Q :> ((X_A_CSV :> write_csv(DF2)) @@ (X_B_CSV :> write_csv(DF1))))

BUCKET_IO_X == BUCKET_IO \o <<"/">> \o X

\* the working directory: without the staging folder, with it, with files staged by
\* an earlier session, with a regular file where the staging folder should be, and
\* with a downloaded file and an old temporary file
InitLocal ==
    { [dirs |-> {}, files |-> <<>>],
      [dirs |-> {BUCKET_IO}, files |-> <<>>],
      [dirs |-> {BUCKET_IO, BUCKET_IO_X},
       files |-> ((BUCKET_IO \o <<"/">> \o X_N_TXT) :> NOTE) @@
                 ((BUCKET_IO \o <<"/">> \o X_A_CSV) :> NOTE)],
      [dirs |-> {}, files |-> BUCKET_IO :> NOTE],
      [dirs |-> {BUCKET_IO, X},
       files |-> (B_CSV :> write_csv(DF2)) @@ (TEMP_CSV :> write_csv(DF2))] }

NoCall == Done("none", <<>>, "none", None, <<>>, <<>>, {}, <<>>)

NoArgs == [file |-> DF1, target |-> OUT_CSV, bucket_id |-> None, fail |-> FALSE]

Init ==
    /\ env = P
    /\ remote = InitRemote
    /\ \E l \in InitLocal : dirs = l.dirs /\ files = l.files
    /\ last = NoCall
    /\ nops = 0
    /\ pc = [t \in Threads |-> "idle"]
    /\ call = [t \in Threads |-> NoArgs]

----------------------------------------------------------------------------
(* The facade's operations, each call as one step. *)

\* the environment variable is changed between two calls
SetEnv(b) ==
    /\ b # env
    /\ env' = b
    /\ UNCHANGED <<remote, dirs, files, last, nops, pc, call>>

Download(file_path, bucket_id, fail) ==
    LET b  == ResolveBucket(bucket_id)
        cp == CpDown(b, file_path, <<".">>, fail, dirs, files)
    IN  /\ nops' = nops + 1
        /\ files' = IF os_system(cp.exit) = "none" THEN cp.files ELSE files
        /\ last' = Done("Download", [file_path |-> file_path, bucket_id |-> bucket_id],
                        os_system(cp.exit), None,
                        <<Cmd("cp", b \o <<"/">> \o file_path, <<".">>)>>, <<cp.exit>>,
                        cp.written, <<>>)
        /\ UNCHANGED <<env, remote, dirs, pc, call>>

\* the state a call of read_from_bucket with outcome r leaves
Loaded(args, r) ==
    /\ nops' = nops + 1
    /\ dirs' = r.dirs
    /\ files' = r.files
    /\ last' = Done("Load", args, r.error, r.value, r.cmds, r.exits, r.copied, r.parsed)
    /\ UNCHANGED <<env, remote, pc, call>>

Load(file_name, file_folder, bucket_id, lazy, stack, failLs, failCp) ==
    Loaded([file_name |-> file_name, file_folder |-> file_folder,
            bucket_id |-> bucket_id, lazy |-> lazy, stack |-> stack],
           read_from_bucket(file_name, file_folder, bucket_id, lazy, stack, failLs, failCp))

\* the state a call of copy_to_bucket with outcome r leaves
Copied(op, args, r) ==
    /\ dirs' = r.dirs
    /\ remote' = r.remote
    /\ last' = Done(op, args, r.error, None, r.cmds, r.exits, {}, <<>>)

Upload(file_name, target, bucket_id, fail) ==
    /\ nops' = nops + 1
    /\ Copied("Upload",
              [file_name |-> file_name, target |-> target, bucket_id |-> bucket_id],
              copy_to_bucket(file_name, target, bucket_id, fail, files))
    /\ UNCHANGED <<env, files, pc, call>>

List(target, bucket_id, return_list, fail) ==
    LET b    == ResolveBucket(bucket_id)
        exit == IF fail THEN 1 ELSE 0
        url  == IF target = None THEN b ELSE b \o <<"/">> \o target
        err  == IF return_list THEN check_output(exit) ELSE os_system(exit)
    IN  /\ nops' = nops + 1
        /\ last' = Done("List",
                        [target |-> target, bucket_id |-> bucket_id,
                         return_list |-> return_list],
                        err,
                        IF return_list /\ err = "none"
                        THEN SplitLines(LsStdout(b, target, fail)) ELSE None,
                        <<Cmd("ls", url, None)>>, <<exit>>, {}, <<>>)
        /\ UNCHANGED <<env, remote, dirs, files, pc, call>>

Remove(file_path, bucket_id, fail) ==
    LET b  == ResolveBucket(bucket_id)
        rm == Rm(b, file_path, fail)
    IN  /\ nops' = nops + 1
        /\ remote' = IF os_system(rm.exit) = "none" THEN rm.remote ELSE remote
        /\ last' = Done("Remove", [file_path |-> file_path, bucket_id |-> bucket_id],
                        os_system(rm.exit), None,
                        <<Cmd("rm", b \o <<"/">> \o file_path, None)>>, <<rm.exit>>,
                        {}, <<>>)
        /\ UNCHANGED <<env, dirs, files, pc, call>>

\* file.write_csv('bucket_io/temp.csv') can create the file: its folder exists
TempWritable(path) == isdir(Join(DropLast(Split(path, "/")), "/")) /\ path \notin dirs

\* write_to_bucket with the local files `staged` after its serialization
WriteStaged(args, staged, fail) ==
    /\ files' = staged
    /\ Copied("WriteRemote", args,
              copy_to_bucket(TempFile(0), args.target, args.bucket_id, fail, staged))

WriteRemote(file, target, bucket_id, fail) ==
    /\ nops' = nops + 1
    /\ IF ~TempWritable(TempFile(0))
       THEN /\ last' = Done("WriteRemote",
                            [file |-> file, target |-> target, bucket_id |-> bucket_id],
                            "FileNotFoundError", None, <<>>, <<>>, {}, <<>>)
            /\ UNCHANGED <<remote, dirs, files>>
       ELSE WriteStaged([file |-> file, target |-> target, bucket_id |-> bucket_id],
                        (TempFile(0) :> write_csv(file)) @@ files, fail)
    /\ UNCHANGED <<env, pc, call>>

Next ==
    \/ \E b \in Buckets : SetEnv(b)
    \/ \E f \in DownloadPaths, b \in BucketArgs, fail \in BOOLEAN :
          nops < MaxOps /\ Download(f, b, fail)
    \/ \E f \in LoadNames, d \in LoadFolders, b \in BucketArgs, lazy \in BOOLEAN,
          failCp \in BOOLEAN :
          nops < MaxOps /\ Load(f, d, b, lazy, FALSE, FALSE, failCp)
    \/ \E d \in LoadFolders, b \in BucketArgs, lazy \in BOOLEAN, stack \in BOOLEAN,
          fail \in Failures :
          nops < MaxOps /\ Load(None, d, b, lazy, stack, fail = "ls", fail = "cp")
    \/ \E f \in UploadSources, t \in UploadTargets, b \in BucketArgs, fail \in BOOLEAN :
          nops < MaxOps /\ Upload(f, t, b, fail)
    \/ \E t \in ListTargets, b \in BucketArgs, rl \in BOOLEAN, fail \in BOOLEAN :
          nops < MaxOps /\ List(t, b, rl, fail)
    \/ \E f \in RemovePaths, b \in BucketArgs, fail \in BOOLEAN :
          nops < MaxOps /\ Remove(f, b, fail)
    \/ \E f \in DataFrames, t \in UploadTargets, b \in BucketArgs, fail \in BOOLEAN :
          nops < MaxOps /\ WriteRemote(f, t, b, fail)

Spec == Init /\ [][Next]_vars

\* a dataframe is written to the bucket and a file is read back
NextRoundTrip ==
    \/ \E f \in DataFrames, t \in UploadTargets, b \in BucketArgs, fail \in BOOLEAN :
          nops < MaxRoundTripOps /\ WriteRemote(f, t, b, fail)
    \/ \E f \in LoadNames, d \in LoadFolders, b \in BucketArgs, lazy \in BOOLEAN,
          failCp \in BOOLEAN :
          nops < MaxRoundTripOps /\ Load(f, d, b, lazy, FALSE, FALSE, failCp)

SpecRoundTrip == Init /\ [][NextRoundTrip]_vars


----------------------------------------------------------------------------
(* write_to_bucket called from several threads: each call is two steps, the *)
(* serialization (line 199) and the upload (line 200), and nothing orders   *)
(* the steps of different calls.                                            *)

\* file.write_csv('bucket_io/temp.csv')
WriteTemp(t, file, target, bucket_id, fail) ==
    /\ pc[t] = "idle"
    /\ call' = [call EXCEPT ![t] = [file |-> file, target |-> target,
                                    bucket_id |-> bucket_id, fail |-> fail]]
    /\ IF TempWritable(TempFile(t))
       THEN /\ files' = (TempFile(t) :> write_csv(file)) @@ files
            /\ pc' = [pc EXCEPT ![t] = "staged"]
       ELSE /\ pc' = [pc EXCEPT ![t] = "raised"]
            /\ UNCHANGED files
    /\ UNCHANGED <<env, remote, dirs, last, nops>>

\* copy_to_bucket(file_name = 'bucket_io/temp.csv', target=target, bucket_id=bucket_id)
CopyTemp(t) ==
    /\ pc[t] = "staged"
    /\ Copied("WriteRemote",
              [file |-> call[t].file, target |-> call[t].target,
               bucket_id |-> call[t].bucket_id],
              copy_to_bucket(TempFile(t), call[t].target, call[t].bucket_id, call[t].fail,
                             files))
    /\ pc' = [pc EXCEPT ![t] = IF last'.error = "none" THEN "done" ELSE "raised"]
    /\ UNCHANGED <<env, files, nops, call>>

NextRace ==
    \/ \E t \in Threads, f \in DataFrames, tg \in UploadTargets, b \in BucketArgs,
          fail \in BOOLEAN : WriteTemp(t, f, tg, b, fail)
    \/ \E t \in Threads : CopyTemp(t)

SpecRace == Init /\ [][NextRace]_vars


----------------------------------------------------------------------------
(* Vocabulary of the properties. *)

\* a step that is one facade call
IsCall == nops' = nops + 1

\* the bucket a recorded command addresses
BucketOfUrl(url) == CHOOSE b \in Buckets : url = b \/ StartsWith(url, b \o <<"/">>)

AddressesBucket(cmd, b) == cmd.url = b \/ StartsWith(cmd.url, b \o <<"/">>)

\* the rows of a dataframe with every value serialized to text
TextRows(df) == [i \in 1..Len(df.rows) |-> [j \in 1..Len(df.rows[i]) |-> CellText(df.rows[i][j])]]

\* bucket_io/[fileFolder/]fileName
StagedPath(file_name, file_folder) ==
    IF file_folder = None THEN BUCKET_IO \o <<"/">> \o file_name
    ELSE BUCKET_IO \o <<"/">> \o file_folder \o <<"/">> \o file_name

\* the objects directly under <folder>/ in bucket b, in listing order, and those of
\* them that are CSV objects
ObjectsUnder(b, folder) ==
    SelectIn(ObjOrder, {o \in DOMAIN remote[b] :
                           StartsWith(o, folder \o <<"/">>)
                           /\ Len(Split(o, "/")) = Len(Split(folder, "/")) + 1})

CsvObjectsUnder(b, folder) ==
    SelectIn(ObjectsUnder(b, folder), {o \in DOMAIN remote[b] : EndsWith(o, DOT_CSV)})

\* the sum of the row counts of the CSV objects objs of bucket b
RECURSIVE RowCountSum(_, _)
RowCountSum(b, objs) ==
    IF Len(objs) = 0 THEN 0
    ELSE (Len(remote[b][objs[1]]) - 1) + RowCountSum(b, Tail(objs))

LastIsFolderLoad ==
    /\ last.op = "Load"
    /\ last.args.file_name = None
    /\ last.args.file_folder # None

----------------------------------------------------------------------------
(* C1: a single-file Load whose copy command succeeded, with the staging    *)
(* folder bucket_io/ in place when the copy ran, wrote the object to        *)
(* bucket_io/[fileFolder/]fileName and parsed exactly that path.            *)
C1_StagedWhereParsed ==
    (/\ last.op = "Load"
     /\ last.args.file_name # None
     /\ last.exits = <<0>>
     /\ BUCKET_IO \in dirs)
    => /\ last.copied = {StagedPath(last.args.file_name, last.args.file_folder)}
       /\ last.parsed = <<StagedPath(last.args.file_name, last.args.file_folder)>>

(* C2: a Load whose fileName does not end in ".csv" raises the format error, *)
(* issues no CLI command and leaves the local directories and files alone.  *)
C2_RejectsNonCsv ==
    [][(/\ IsCall
        /\ last'.op = "Load"
        /\ last'.args.file_name # None
        /\ ~EndsWith(last'.args.file_name, DOT_CSV))
       => /\ last'.error = "ValueError: not csv"
          /\ last'.cmds = <<>>
          /\ dirs' = dirs
          /\ files' = files]_vars

(* C3: WriteRemote(df, "x/out.csv") that succeeded, directly followed by    *)
(* Load("out.csv", "x") on the same bucket whose copy succeeded, returns a  *)
(* frame whose cells are df's values serialized to text (lazy or not).      *)
C3_RoundTrip ==
    [][(/\ last.op = "WriteRemote"
        /\ last.error = "none"
        /\ last.exits = <<0>>
        /\ last.args.target = X_OUT_CSV
        /\ IsCall
        /\ last'.op = "Load"
        /\ last'.args.file_name = OUT_CSV
        /\ last'.args.file_folder = X
        /\ last'.exits = <<0>>
        /\ last'.cmds[1].url = last.cmds[1].url)
       => /\ last'.error = "none"
          /\ Collect(last'.value, files').columns = last.args.file.columns
          /\ Collect(last'.value, files').rows = TextRows(last.args.file)]_vars

(* C4: Load(fileFolder=x, stack=false, lazy=false) whose commands succeeded *)
(* returns one eager frame per CSV object listed under x, in listing order. *)
C4_OneFramePerCsv ==
    (/\ LastIsFolderLoad
     /\ ~last.args.stack
     /\ ~last.args.lazy
     /\ last.exits = <<0, 0>>)
    => LET b    == BucketOfUrl(last.cmds[1].url)
           csvs == CsvObjectsUnder(b, last.args.file_folder)
       IN  /\ last.error = "none"
           /\ Len(last.value) = Len(csvs)
           /\ \A i \in 1..Len(csvs) : last.value[i] = ParseCsv(remote[b][csvs[i]])

(* C5: Load(fileFolder=x, stack=true), lazy or not, whose commands          *)
(* succeeded, over a prefix holding two or more CSV objects with identical  *)
(* columns (and nothing else), returns one materialized frame whose rows    *)
(* are the files' rows in listing order.                                    *)
C5_StackInListingOrder ==
    (/\ LastIsFolderLoad
     /\ last.args.stack
     /\ last.exits = <<0, 0>>
     /\ LET b == BucketOfUrl(last.cmds[1].url)
        IN  /\ ObjectsUnder(b, last.args.file_folder) = CsvObjectsUnder(b, last.args.file_folder)
            /\ Len(ObjectsUnder(b, last.args.file_folder)) >= 2
            /\ \A o \in Range(ObjectsUnder(b, last.args.file_folder)) :
                  remote[b][o][1] = <<ColK, ColV>>)
    => LET b    == BucketOfUrl(last.cmds[1].url)
           objs == ObjectsUnder(b, last.args.file_folder)
       IN  /\ last.error = "none"
           /\ last.value.kind = "eager"
           /\ last.value.rows = Flatten([i \in 1..Len(objs) |-> Tail(remote[b][objs[i]])])
           /\ Len(last.value.rows) = RowCountSum(b, objs)

C5_Witness ==
    /\ LastIsFolderLoad
    /\ last.args.stack
    /\ last.args.lazy
    /\ last.error = "none"
    /\ Len(ObjectsUnder(Q, X)) = 2
    /\ BucketOfUrl(last.cmds[1].url) = Q
    /\ Len(last.value.rows) = 3


(* C6: whatever a WriteRemote call serialized, its upload step puts the     *)
(* current content of the one file bucket_io/temp.csv at its target, and    *)
(* every call's serialization step overwrites that same file: between a     *)
(* call's two steps another call can replace the data it uploads.           *)
C6_UploadsSharedTemp ==
    [][\A t \in Threads :
          /\ (pc[t] = "idle" /\ pc'[t] = "staged")
             => /\ TEMP_CSV \in DOMAIN files'
                /\ files'[TEMP_CSV] = write_csv(call'[t].file)
          /\ (pc[t] = "staged" /\ pc'[t] = "done" /\ last'.exits = <<0>>)
             => /\ TEMP_CSV \in DOMAIN files
                /\ remote'[ResolveBucket(call[t].bucket_id)][call[t].target] = files[TEMP_CSV]
      ]_vars

\* thread 1's upload succeeded and left thread 2's data at thread 1's target
C6_Clobbered ==
    /\ pc[1] = "done"
    /\ pc[2] \in {"staged", "done"}
    /\ ~call[1].fail
    /\ call[1].file # call[2].file
    /\ call[1].target # call[2].target
    /\ call[1].target \in DOMAIN remote[ResolveBucket(call[1].bucket_id)]
    /\ remote[ResolveBucket(call[1].bucket_id)][call[1].target] = write_csv(call[2].file)

(* C7, amended: a call raises the subprocess error exactly when its first   *)
(* CLI command exited non-zero and the call is List with returnList=true or *)
(* Load without fileName (which lists in captured mode); no other command's *)
(* exit status is raised.                                                   *)
C7_OnlyCapturedListingRaises ==
    (last.error = "CalledProcessError")
    <=> /\ Len(last.exits) >= 1
        /\ last.exits[1] # 0
        /\ IF last.op = "List" THEN last.args.return_list
           ELSE IF last.op = "Load" THEN last.args.file_name = None
           ELSE FALSE

\* a Load without fileName whose listing command failed
C7_Witness ==
    /\ last.op = "Load"
    /\ last.args.file_name = None
    /\ last.exits = <<1>>
    /\ last.error = "CalledProcessError"

(* C7 as claimed: only List with returnList=true raises the subprocess      *)
(* error; Load in every mode never does.                                    *)
C7_OnlyListRaises ==
    (last.error = "CalledProcessError") => (last.op = "List" /\ last.args.return_list)

C9_BucketResolvedAtCall ==
    [][IsCall
       => \A i \in 1..Len(last'.cmds) :
             AddressesBucket(last'.cmds[i],
                             IF last'.args.bucket_id = None THEN env
                             ELSE last'.args.bucket_id)]_vars

\* a call without bucketId made after the variable was changed from P to Q
C9_Witness ==
    /\ last.op = "Load"
    /\ last.args.bucket_id = None
    /\ Len(last.cmds) = 2
    /\ \A i \in 1..2 : AddressesBucket(last.cmds[i], Q)

(* C10: Load with neither fileName nor fileFolder raises the argument       *)
(* error, issues no CLI command and leaves the local filesystem alone.      *)
C10_NeitherIsRejected ==
    [][(/\ IsCall
        /\ last'.op = "Load"
        /\ last'.args.file_name = None
        /\ last'.args.file_folder = None)
       => /\ last'.error = "ValueError: neither"
          /\ last'.cmds = <<>>
          /\ dirs' = dirs
          /\ files' = files]_vars

C10_Witness ==
    /\ last.op = "Load"
    /\ last.args.file_name = None
    /\ last.args.file_folder = None
    /\ last.args.lazy
    /\ last.args.stack
    /\ last.args.bucket_id = Q
    /\ last.error = "ValueError: neither"


====
